---- MODULE Spec2Model ----
(***************************************************************************)
(* A model of the `cal` command of sn0int (src/cmd/cal_cmd.rs): the        *)
(* resolver of date arguments, the query range, the activity histogram,    *)
(* the activity grader, the month renderer and the multi-month compositor. *)
(***************************************************************************)
EXTENDS Integers, Sequences, FiniteSets, TLC

VARIABLES
    pc,        \* position of the command / of the function under study
    args,      \* Args.args: the positional date tokens
    context,   \* Args.context: Option<u32>
    clock,     \* the ambient clock, what Utc::today() returns when read
    from_args_today,  \* from_args: its local `today`
    ds,        \* Result<DateSpec> of DateSpec::from_args
    since,     \* ds.start()
    until,     \* ds.end()
    events,    \* the dates of the activity events the query returned
    idx,       \* setup_graph_map: number of events scanned
    cur,       \* setup_graph_map: Option<NaiveDate> of the running group
    ctr,       \* setup_graph_map: running count
    max,       \* setup_graph_map: running maximum
    map,       \* setup_graph_map: HashMap<NaiveDate, u64>
    ctx,       \* Context { events, max, today }
    months,    \* the render list handed to chunk_months / merge_months
    date,      \* the date handed to activity_for_day
    grade,     \* the ActivityGrade returned
    out        \* the text produced

vars == <<pc, args, context, clock, from_args_today, ds, since, until, events,
          idx, cur, ctr, max, map, ctx, months, date, grade, out>>

(***************************************************************************)
(* Bounds of the model.                                                    *)
(***************************************************************************)
\* the years of the bare-number tokens and of the rendered months
MinYear == 2020
NumYears == 2
\* the context counts tried by the resolver and by the range computation
MaxArgContext == 2
MaxContext == 14

Years == MinYear..(MinYear + NumYears - 1)

(***************************************************************************)
(* Calendar primitives of chrono (proleptic Gregorian calendar).           *)
(***************************************************************************)
\* the years chrono's dates span (MIN_YEAR, MAX_YEAR of chrono::naive::date)
MIN_YEAR == -262144
MAX_YEAR == 262143

\* the number of days of a month of the proleptic Gregorian calendar
IsLeapYear(y) == y % 4 = 0 /\ (y % 100 # 0 \/ y % 400 = 0)
MonthLength(y, m) ==
    IF m = 2 THEN (IF IsLeapYear(y) THEN 29 ELSE 28)
    ELSE IF m \in {4, 6, 9, 11} THEN 30
    ELSE 31

\* the (year, month, day) triples NaiveDate::from_ymd_opt has a date for
ValidYmd(y, m, d) ==
    /\ y >= MIN_YEAR /\ y <= MAX_YEAR
    /\ m >= 1 /\ m <= 12
    /\ d >= 1 /\ d <= MonthLength(y, m)

\* no date: the payload of an absent date, and what a panicking from_ymd
\* leaves its caller with
NoDate == [year |-> 0, month |-> 0, day |-> 0]

\* NaiveDate::from_ymd / Utc.ymd: the date, or a panic ("invalid or
\* out-of-range date") modelled as NoDate, which ends the caller
from_ymd(y, m, d) ==
    IF ValidYmd(y, m, d) THEN [year |-> y, month |-> m, day |-> d] ELSE NoDate

\* the call panicked
Panicked(d) == d = NoDate

\* i32: a result outside I32Min..I32Max panics where overflow checks are
\* compiled in and wraps around where they are not
I32Max == 2147483647
I32Min == -I32Max - 1

\* a + 1 in i32, wrapped
AddOneI32(a) == IF a < I32Max THEN a + 1 ELSE I32Min
\* a - b in i32 for b >= 0, wrapped
SubI32(a, b) ==
    IF a >= I32Min + b THEN a - b
    ELSE I32Max - ((b - (a - I32Min)) - 1)

\* days since 1970-01-01 of a date
DaysFromCivil(d) ==
    LET y   == IF d.month <= 2 THEN d.year - 1 ELSE d.year
        era == y \div 400
        yoe == y - era * 400
        mp  == (d.month + 9) % 12
        doy == (153 * mp + 2) \div 5 + d.day - 1
        doe == yoe * 365 + yoe \div 4 - yoe \div 100 + doy
    IN  era * 146097 + doe - 719468

\* end.signed_duration_since(start).num_days()
NumDaysBetween(start, end) == DaysFromCivil(end) - DaysFromCivil(start)

\* date.weekday().num_days_from_sunday(): 0 = Sunday .. 6 = Saturday
num_days_from_sunday(d) == (DaysFromCivil(d) + 4) % 7

Sat == 6
\* Weekday::succ
succ(wd) == (wd + 1) % 7

\* NaiveDate's ordering (self.today < *date)
DateLt(a, b) ==
    \/ a.year < b.year
    \/ a.year = b.year /\ a.month < b.month
    \/ a.year = b.year /\ a.month = b.month /\ a.day < b.day

days_in_month(year, month) ==
    LET start == from_ymd(year, month, 1)
        end   == IF month = 12 THEN from_ymd(year + 1, 1, 1)
                 ELSE from_ymd(year, month + 1, 1)
    IN  NumDaysBetween(start, end)

\* days_in_month panics when the Utc.ymd of its start or of its end does
days_in_month_panics(year, month) ==
    \/ Panicked(from_ymd(year, month, 1))
    \/ Panicked(IF month = 12 THEN from_ymd(year + 1, 1, 1)
                ELSE from_ymd(year, month + 1, 1))

(***************************************************************************)
(* DateArg, DateSpec, Option<u32>.                                         *)
(***************************************************************************)
Month(m) == [kind |-> "Month", val |-> m]
Num(n)   == [kind |-> "Num", val |-> n]

None    == [some |-> FALSE, val |-> 0]
Some(c) == [some |-> TRUE, val |-> c]

Year(y)                   == [kind |-> "Year", year |-> y, month |-> 0, context |-> 0]
YearMonth(y, m)           == [kind |-> "YearMonth", year |-> y, month |-> m, context |-> 0]
YearMonthContext(y, m, c) == [kind |-> "YearMonthContext", year |-> y, month |-> m, context |-> c]

NoSpec == [kind |-> "none", year |-> 0, month |-> 0, context |-> 0]
Ok(d)  == [ok |-> TRUE, err |-> "", ds |-> d]
Err(e) == [ok |-> FALSE, err |-> e, ds |-> NoSpec]

TooManyArgs == "Too many datespec args"
InvalidCombination == "Combination of datespec args is invalid"

\* args.get(i): the token at 0-based index i, if any
HasArg(a, i) == Len(a) > i
IsMonth(a, i) == HasArg(a, i) /\ a[i + 1].kind = "Month"
IsNum(a, i) == HasArg(a, i) /\ a[i + 1].kind = "Num"

(***************************************************************************)
(* DateSpec::from_args: the match over (args.get(0), args.get(1), context) *)
(* arm by arm, first match wins.                                           *)
(***************************************************************************)
\* a mutant of TooManyDateArgs: the length check off by one
TooManyDateArgsOffByOne(a) == Len(a) > 3

\* `if args.len() > 2`
TooManyDateArgs(a) == Len(a) > 2

from_args(a, c, today) ==
    IF TooManyDateArgs(a) THEN Err(TooManyArgs)
    ELSE CASE ~HasArg(a, 0) /\ ~c.some
                -> Ok(YearMonth(today.year, today.month))
           [] ~HasArg(a, 0) /\ c.some
                -> Ok(YearMonthContext(today.year, today.month, c.val))
           [] IsMonth(a, 0) /\ ~HasArg(a, 1) /\ ~c.some
                -> Ok(YearMonth(today.year, a[1].val))
           [] IsNum(a, 0) /\ ~HasArg(a, 1) /\ ~c.some
                -> Ok(Year(a[1].val))
           [] IsMonth(a, 0) /\ IsNum(a, 1) /\ ~c.some
                -> Ok(YearMonth(a[2].val, a[1].val))
           [] IsNum(a, 0) /\ IsMonth(a, 1) /\ ~c.some
                -> Ok(YearMonth(a[1].val, a[2].val))
           [] IsMonth(a, 0) /\ ~HasArg(a, 1) /\ c.some
                -> Ok(YearMonthContext(today.year, a[1].val, c.val))
           [] IsMonth(a, 0) /\ IsNum(a, 1) /\ c.some
                -> Ok(YearMonthContext(a[2].val, a[1].val, c.val))
           [] IsNum(a, 0) /\ IsMonth(a, 1) /\ c.some
                -> Ok(YearMonthContext(a[1].val, a[2].val, c.val))
           [] OTHER -> Err(InvalidCombination)

(***************************************************************************)
(* DateSpec::start and DateSpec::end.                                      *)
(***************************************************************************)
\* a mutant of start: the wrap into the year before leaves out `year -= 1`
StartNoYearDecrement(d) ==
    CASE d.kind = "Year" -> from_ymd(d.year, 1, 1)
      [] d.kind = "YearMonth" -> from_ymd(d.year, d.month, 1)
      [] d.kind = "YearMonthContext" ->
            LET year0 == SubI32(d.year, d.context \div 12)
                c     == d.context % 12
            IN  IF c >= d.month
                THEN from_ymd(year0, 12 - c + d.month, 1)
                ELSE from_ymd(year0, d.month - c, 1)

start(d) ==
    CASE d.kind = "Year" -> from_ymd(d.year, 1, 1)
      [] d.kind = "YearMonth" -> from_ymd(d.year, d.month, 1)
      [] d.kind = "YearMonthContext" ->
            LET year0 == SubI32(d.year, d.context \div 12)
                c     == d.context % 12
            IN  IF c >= d.month
                THEN from_ymd(SubI32(year0, 1), 12 - c + d.month, 1)
                ELSE from_ymd(year0, d.month - c, 1)

end(d) ==
    CASE d.kind = "Year" -> from_ymd(AddOneI32(d.year), 1, 1)
      [] d.kind = "YearMonth" ->
            IF d.month = 12 THEN from_ymd(AddOneI32(d.year), 1, 1)
            ELSE from_ymd(d.year, d.month + 1, 1)
      [] d.kind = "YearMonthContext" ->
            IF d.month = 12 THEN from_ymd(AddOneI32(d.year), 1, 1)
            ELSE from_ymd(d.year, d.month + 1, 1)

(***************************************************************************)
(* The render list of the YearMonthContext arm of to_term_string: the loop *)
(* `for _ in 0..=context` pushing (year, month) and stepping one month.    *)
(***************************************************************************)
RECURSIVE PushMonths(_, _, _, _)
PushMonths(list, year, month, n) ==
    IF n = 0 THEN list
    ELSE LET pushed == Append(list, YearMonth(year, month))
         IN  IF month = 12 THEN PushMonths(pushed, year + 1, 1, n - 1)
             ELSE PushMonths(pushed, year, month + 1, n - 1)

\* a mutant of ContextMonths: the loop runs over `0..context`
ContextMonthsExclusive(d) ==
    LET s == start(d) IN PushMonths(<<>>, s.year, s.month, d.context)

ContextMonths(d) ==
    LET s == start(d) IN PushMonths(<<>>, s.year, s.month, d.context + 1)

\* the render list of the Year arm: (1..=12).map(YearMonth((year, month)))
YearMonths(d) == [mo \in 1..12 |-> YearMonth(d.year, mo)]

\* the list of months the Year and YearMonthContext arms of to_term_string
\* hand to chunk_months
RenderList(d) ==
    CASE d.kind = "Year" -> YearMonths(d)
      [] d.kind = "YearMonthContext" -> ContextMonths(d)

(***************************************************************************)
(* Context and the activity grader.                                        *)
(***************************************************************************)
\* Context { events, max, today }; events is a function date -> count
Context(ev, mx, today) == [events |-> ev, max |-> mx, today |-> today]

EmptyMap == [d \in {} |-> 0]

is_today(c, d) == c.today = d
is_future(c, d) == DateLt(c.today, d)

\* x <= k for x = events / (max / 4.0) in f64: max / 4.0 is exact and the
\* quotient rounds monotonically, so the comparison is 4 * events <= k * max;
\* with max = 0 the step is 0.0 and x is +inf or NaN, and no comparison holds
\* a mutant of XLe: the comparison is strict (x < k)
XLt(ev, mx, k) == mx # 0 /\ 4 * ev < k * mx

XLe(ev, mx, k) == mx # 0 /\ 4 * ev <= k * mx

activity_for_day(c, d) ==
    IF d \in DOMAIN c.events
    THEN LET ev == c.events[d]
         IN  IF XLe(ev, c.max, 1) THEN "One"
             ELSE IF XLe(ev, c.max, 2) THEN "Two"
             ELSE IF XLe(ev, c.max, 3) THEN "Three"
             ELSE "Four"
    ELSE "None"

(***************************************************************************)
(* Text. A string is a sequence of tokens; a token is a character or an    *)
(* indivisible piece of text with its display width.                       *)
(***************************************************************************)
Tok(k, a, b) == [k |-> k, a |-> a, b |-> b]
NL == Tok("nl", 0, 0)                       \* '\n'
SP == Tok("sp", 0, 0)                       \* ' '
Title(y, m) == Tok("title", y, m)           \* format!("{:^21}", "%B %Y")
WeekdayHeader == Tok("weekdays", 0, 0)      \* " Su Mo Tu We Th Fr Sa"
Style(g) == Tok(g, 0, 0)                    \* ActivityGrade::as_term_str
BoldHash == Tok("bold#", 0, 0)              \* "\x1b[1m#"
DayNum(n) == Tok("day", n, 0)               \* format!("{:2}", cur_day)
Reset == Tok("reset", 0, 0)                 \* "\x1b[0m"

\* " ".repeat(n)
Spaces(n) == [i \in 1..n |-> SP]

\* display columns a token takes
Width(t) ==
    CASE t.k \in {"title", "weekdays"} -> 21
      [] t.k = "day" -> 2
      [] t.k \in {"sp", "bold#"} -> 1
      [] OTHER -> 0

\* str::lines(): the pieces between newlines; a final newline opens no line
NewlinesOf(w) == {i \in 1..Len(w) : w[i] = NL}
NumLines(w) ==
    IF Len(w) = 0 THEN 0
    ELSE IF w[Len(w)] = NL THEN Cardinality(NewlinesOf(w))
    ELSE Cardinality(NewlinesOf(w)) + 1
Lines(w) ==
    LET nl == NewlinesOf(w)
        \* position of the j-th newline; 0 before the text, Len(w)+1 after it
        At(j) == IF j = 0 THEN 0
                 ELSE IF j > Cardinality(nl) THEN Len(w) + 1
                 ELSE CHOOSE p \in nl : Cardinality({q \in nl : q <= p}) = j
    IN  [j \in 1..NumLines(w) |-> SubSeq(w, At(j - 1) + 1, At(j) - 1)]

(***************************************************************************)
(* The YearMonth arm of DateSpec::to_term_string.                          *)
(***************************************************************************)
\* a mutant of DayStep: the week is taken to end on Sunday
DayStepWeekEndsSunday(st, year, month, days, c, cur_day) ==
    LET d      == from_ymd(year, month, cur_day)
        styled == IF ~is_future(c, d)
                  THEN Append(st.w, Style(activity_for_day(c, d)))
                  ELSE st.w
        marked == IF is_today(c, d) THEN Append(styled, BoldHash)
                  ELSE Append(styled, SP)
        cell   == marked \o <<DayNum(cur_day), Reset>>
        sat    == st.cur_week_day = 0
    IN  [w             |-> IF sat /\ cur_day # days THEN Append(cell, NL) ELSE cell,
         cur_week_day  |-> succ(st.cur_week_day),
         week_written  |-> IF sat THEN 0 ELSE st.week_written + 3]

\* a mutant of DayStep: the newline after a Saturday is pushed for the last day too
DayStepNewlineAfterLastDay(st, year, month, days, c, cur_day) ==
    LET d      == from_ymd(year, month, cur_day)
        styled == IF ~is_future(c, d)
                  THEN Append(st.w, Style(activity_for_day(c, d)))
                  ELSE st.w
        marked == IF is_today(c, d) THEN Append(styled, BoldHash)
                  ELSE Append(styled, SP)
        cell   == marked \o <<DayNum(cur_day), Reset>>
        sat    == st.cur_week_day = Sat
    IN  [w             |-> IF sat THEN Append(cell, NL) ELSE cell,
         cur_week_day  |-> succ(st.cur_week_day),
         week_written  |-> IF sat THEN 0 ELSE st.week_written + 3]

\* a mutant of DayStep: the grade's style is pushed for future days too
DayStepStyleFuture(st, year, month, days, c, cur_day) ==
    LET d      == from_ymd(year, month, cur_day)
        styled == Append(st.w, Style(activity_for_day(c, d)))
        marked == IF is_today(c, d) THEN Append(styled, BoldHash)
                  ELSE Append(styled, SP)
        cell   == marked \o <<DayNum(cur_day), Reset>>
        sat    == st.cur_week_day = Sat
    IN  [w             |-> IF sat /\ cur_day # days THEN Append(cell, NL) ELSE cell,
         cur_week_day  |-> succ(st.cur_week_day),
         week_written  |-> IF sat THEN 0 ELSE st.week_written + 3]

\* one iteration of `for cur_day in 1..=days`, on the loop's state
\* st = [w, cur_week_day, week_written]
DayStep(st, year, month, days, c, cur_day) ==
    LET d      == from_ymd(year, month, cur_day)
        styled == IF ~is_future(c, d)
                  THEN Append(st.w, Style(activity_for_day(c, d)))
                  ELSE st.w
        marked == IF is_today(c, d) THEN Append(styled, BoldHash)
                  ELSE Append(styled, SP)
        cell   == marked \o <<DayNum(cur_day), Reset>>
        sat    == st.cur_week_day = Sat
    IN  [w             |-> IF sat /\ cur_day # days THEN Append(cell, NL) ELSE cell,
         cur_week_day  |-> succ(st.cur_week_day),
         week_written  |-> IF sat THEN 0 ELSE st.week_written + 3]

RECURSIVE DayLoop(_, _, _, _, _, _)
DayLoop(st, year, month, days, c, cur_day) ==
    IF cur_day > days THEN st
    ELSE LET nxt == DayStep(st, year, month, days, c, cur_day)
         IN  \* week_written: usize (the guard also has TLC evaluate the
             \* iteration before it enters the next one)
             CASE nxt.week_written \in Nat ->
                    DayLoop(nxt, year, month, days, c, cur_day + 1)

\* the state of the renderer when the loop over the days has ended
MonthLoop(year, month, c) ==
    LET first         == from_ymd(year, month, 1)
        days          == days_in_month(year, month)
        cur_week_day  == num_days_from_sunday(first)
        week_progress == cur_week_day
        head          == <<Title(year, month), NL, WeekdayHeader, NL>>
                            \o Spaces(3 * week_progress)
    IN  DayLoop([w |-> head, cur_week_day |-> cur_week_day,
                 week_written |-> week_progress * 3],
                year, month, days, c, 1)

\* a mutant of MonthBlock: the last row is padded to 20 columns
MonthBlockPadTwenty(year, month, c) ==
    LET st == MonthLoop(year, month, c)
    IN  IF st.week_written # 0
        THEN st.w \o Spaces(20 - st.week_written)
        ELSE st.w

MonthBlock(year, month, c) ==
    LET st == MonthLoop(year, month, c)
    IN  IF st.week_written # 0
        THEN st.w \o Spaces(21 - st.week_written)
        ELSE st.w

(***************************************************************************)
(* merge_months, chunk_months and DateSpec::to_term_string.                *)
(***************************************************************************)
MONTH_LINES == 7

RECURSIVE to_term_string(_, _)

\* the inner loop `for m in &mut months` of one merged line: st = [months, out],
\* months the VecDeques of lines still to be consumed
RECURSIVE MergeLine(_, _)

\* a mutant of MergeLine: nothing is pushed for a month that has no line left
MergeLineNoBlank(st, m) ==
    IF m > Len(st.months) THEN st
    ELSE LET gutter == IF m > 1 THEN st.out \o Spaces(3) ELSE st.out
             q      == st.months[m]
             nxt    == IF Len(q) > 0
                       THEN [months |-> [st.months EXCEPT ![m] = Tail(q)],
                             out    |-> gutter \o Head(q)]
                       ELSE [months |-> st.months, out |-> gutter]
         IN  CASE Len(nxt.out) > 0 -> MergeLine(nxt, m + 1)

MergeLine(st, m) ==
    IF m > Len(st.months) THEN st
    ELSE LET gutter == IF m > 1 THEN st.out \o Spaces(3) ELSE st.out
             q      == st.months[m]
             nxt    == IF Len(q) > 0
                       THEN [months |-> [st.months EXCEPT ![m] = Tail(q)],
                             out    |-> gutter \o Head(q)]
                       ELSE [months |-> st.months,
                             out    |-> gutter \o Spaces(21)]
         IN  \* (the guard has TLC evaluate the iteration before the next one)
             CASE Len(nxt.out) > 0 -> MergeLine(nxt, m + 1)

\* the outer loop `for i in 0..=MONTH_LINES`
RECURSIVE MergeLoop(_, _)

\* a mutant of MergeLoop: the loop runs over `0..MONTH_LINES`
MergeLoopExclusive(st, i) ==
    IF i >= MONTH_LINES THEN st
    ELSE LET line == MergeLine(st, 1)
             nxt  == [months |-> line.months,
                      out    |-> IF i < MONTH_LINES - 1 THEN Append(line.out, NL)
                                 ELSE line.out]
         IN  CASE Len(nxt.out) >= 0 -> MergeLoop(nxt, i + 1)

MergeLoop(st, i) ==
    IF i > MONTH_LINES THEN st
    ELSE LET line == MergeLine(st, 1)
             nxt  == [months |-> line.months,
                      out    |-> IF i < MONTH_LINES THEN Append(line.out, NL)
                                 ELSE line.out]
         IN  CASE Len(nxt.out) >= 0 -> MergeLoop(nxt, i + 1)

merge_months(c, ms) ==
    MergeLoop([months |-> [mi \in 1..Len(ms) |-> Lines(to_term_string(ms[mi], c))],
               out    |-> <<>>], 0).out

\* the VecDeques of merge_months when it returns: the lines of each month
\* that it has not consumed
merge_months_rest(c, ms) ==
    MergeLoop([months |-> [mi \in 1..Len(ms) |-> Lines(to_term_string(ms[mi], c))],
               out    |-> <<>>], 0).months

\* slice::chunks(3)
Chunks(ms) ==
    [k \in 1..((Len(ms) + 2) \div 3) |->
        SubSeq(ms, 3 * k - 2, IF 3 * k < Len(ms) THEN 3 * k ELSE Len(ms))]

\* the fold over the merged chunks
RECURSIVE JoinChunks(_, _, _)

\* a mutant of JoinChunks: the groups are joined by an empty line ("\n\n")
JoinChunksBlankLine(a, bs, n) ==
    IF n > Len(bs) THEN a
    ELSE LET nxt == IF a = <<>> THEN a \o bs[n] ELSE a \o <<NL, NL>> \o bs[n]
         IN  CASE Len(nxt) >= 0 -> JoinChunks(nxt, bs, n + 1)

JoinChunks(a, bs, n) ==
    IF n > Len(bs) THEN a
    ELSE LET nxt == IF a = <<>> THEN a \o bs[n] ELSE a \o <<NL>> \o bs[n]
         IN  CASE Len(nxt) >= 0 -> JoinChunks(nxt, bs, n + 1)

chunk_months(c, ms) ==
    LET chunks == Chunks(ms)
    IN  JoinChunks(<<>>, [g \in 1..Len(chunks) |-> merge_months(c, chunks[g])], 1)

to_term_string(d, c) ==
    CASE d.kind = "Year" -> chunk_months(c, RenderList(d))
      [] d.kind = "YearMonth" -> MonthBlock(d.year, d.month, c)
      [] d.kind = "YearMonthContext" -> chunk_months(c, RenderList(d))

\* the YearMonth arm panics when Utc.ymd(year, month, 1) or days_in_month
\* does; the dates of its loop are days of a month that exists
MonthBlockPanics(year, month) ==
    \/ Panicked(from_ymd(year, month, 1))
    \/ days_in_month_panics(year, month)

\* to_term_string panics when self.start() does or when the rendering of one
\* of the months does
to_term_string_panics(d) ==
    CASE d.kind = "Year" -> \E mo \in 1..12 : MonthBlockPanics(d.year, mo)
      [] d.kind = "YearMonth" -> MonthBlockPanics(d.year, d.month)
      [] d.kind = "YearMonthContext" ->
            \/ Panicked(start(d))
            \/ \E n \in 1..(d.context + 1) :
                  MonthBlockPanics(RenderList(d)[n].year, RenderList(d)[n].month)

(***************************************************************************)
(* Values of the variables an operation under study does not use.          *)
(***************************************************************************)
NoCur == [some |-> FALSE, val |-> NoDate]
SomeCur(d) == [some |-> TRUE, val |-> d]
NoContext == Context(EmptyMap, 0, NoDate)

resolveVars == <<args, context, clock, from_args_today, ds>>
rangeVars   == <<since, until>>
foldVars    == <<events, idx, cur, ctr, max, map>>
gradeVars   == <<date, grade>>

IdleResolve == args = <<>> /\ context = None /\ clock = NoDate
                /\ from_args_today = NoDate /\ ds = Err("")
IdleRange   == since = NoDate /\ until = NoDate
IdleFold    == events = <<>> /\ idx = 0 /\ cur = NoCur /\ ctr = 0 /\ max = 0
                /\ map = EmptyMap
IdleGrade   == date = NoDate /\ grade = ""

\* the sequences of at most n elements of S
SeqsUpTo(S, n) == UNION {[1..k -> S] : k \in 0..n}

(***************************************************************************)
(* ResolveSpec: DateSpec::from_args on every list of at most MaxArgs       *)
(* tokens, every context up to MaxArgContext and two values of the clock.  *)
(***************************************************************************)
MaxArgs == 3

Tokens == {Month(mo) : mo \in 1..12} \cup {Num(y) : y \in Years}
ArgContexts == {None} \cup {Some(c) : c \in 0..MaxArgContext}
Todays == {from_ymd(MinYear, 5, 30), from_ymd(MinYear, 12, 31)}

ResolveInit ==
    /\ pc = "start"
    /\ args \in SeqsUpTo(Tokens, MaxArgs)
    /\ context \in ArgContexts
    /\ clock \in Todays
    /\ from_args_today = NoDate
    /\ ds = Err("")
    /\ IdleRange /\ IdleFold /\ IdleGrade
    /\ ctx = NoContext /\ months = <<>> /\ out = <<>>

\* DateSpec::from_args(&self.args, self.context); past the check of the
\* number of tokens it reads the clock itself: `let today = Utc::today()`
FromArgs ==
    /\ pc = "start"
    /\ from_args_today' = IF TooManyDateArgs(args) THEN from_args_today ELSE clock
    /\ ds' = from_args(args, context, clock)
    /\ pc' = IF ds'.ok THEN "parsed" ELSE "failed"
    /\ UNCHANGED <<args, context, clock, rangeVars, foldVars, gradeVars,
                   ctx, months, out>>

ResolveNext == FromArgs
ResolveSpec == ResolveInit /\ [][ResolveNext]_vars

\* The resolver's decision table, by the number and the kinds of the tokens.
TableMonthOf(a) == IF a[1].kind = "Month" THEN a[1].val ELSE a[2].val
TableYearOf(a) == IF a[1].kind = "Num" THEN a[1].val ELSE a[2].val
TableSpec(y, mo, c) == IF c.some THEN Ok(YearMonthContext(y, mo, c.val))
                       ELSE Ok(YearMonth(y, mo))
DecisionTable(a, c, today) ==
    CASE Len(a) > 2 -> Err(TooManyArgs)
      [] Len(a) = 0 -> TableSpec(today.year, today.month, c)
      [] Len(a) = 1 /\ a[1].kind = "Month" -> TableSpec(today.year, a[1].val, c)
      [] Len(a) = 1 /\ a[1].kind = "Num" /\ ~c.some -> Ok(Year(a[1].val))
      [] Len(a) = 2 /\ a[1].kind # a[2].kind ->
            TableSpec(TableYearOf(a), TableMonthOf(a), c)
      [] OTHER -> Err(InvalidCombination)

\* C1: from_args agrees with the decision table on every list of 0..3 tokens
\* and every context: more than two tokens fail whatever they are, and two
\* Months, two Nums and a lone Num with a context are invalid combinations.
C1_FromArgsFollowsTable ==
    pc \in {"parsed", "failed"} =>
        /\ pc = "parsed" <=> ds.ok
        /\ ds = DecisionTable(args, context, clock)
        /\ Len(args) > 2 => ds = Err(TooManyArgs)
        /\ (Len(args) = 2 /\ args[1].kind = args[2].kind)
              => ds = Err(InvalidCombination)
        /\ (Len(args) = 1 /\ args[1].kind = "Num" /\ context.some)
              => ds = Err(InvalidCombination)

\* C1 witness: a Num followed by a Month, with a context, has been resolved
C1_Witness ==
    /\ pc = "parsed"
    /\ Len(args) = 2 /\ args[1].kind = "Num" /\ args[2].kind = "Month"
    /\ context.some /\ context.val > 0
    /\ ds = Ok(YearMonthContext(args[1].val, args[2].val, context.val))

(***************************************************************************)
(* RangeSpec: start(), end() and the render list of every DateSpec with a  *)
(* year of Years, a month of 1..12 and a context up to MaxContext.         *)
(***************************************************************************)
DateSpecs ==
    {Year(y) : y \in Years}
        \cup {YearMonth(y, mo) : y \in Years, mo \in 1..12}
        \cup {YearMonthContext(y, mo, c) : y \in Years, mo \in 1..12, c \in 0..MaxContext}

RangeInit ==
    /\ pc = "parsed"
    /\ ds \in {Ok(d) : d \in DateSpecs}
    /\ args = <<>> /\ context = None /\ clock = NoDate
    /\ from_args_today = NoDate
    /\ IdleRange /\ IdleFold /\ IdleGrade
    /\ ctx = NoContext /\ months = <<>> /\ out = <<>>

\* since: Some(ds.start()...), until: Some(ds.end()...)
QueryRange ==
    /\ pc = "parsed"
    /\ IF Panicked(start(ds.ds)) \/ Panicked(end(ds.ds))
       THEN /\ pc' = "panicked"
            /\ UNCHANGED rangeVars
       ELSE /\ since' = start(ds.ds)
            /\ until' = end(ds.ds)
            /\ pc' = "ranged"
    /\ UNCHANGED <<resolveVars, foldVars, gradeVars, ctx, months, out>>

BuildRenderList ==
    /\ pc = "ranged"
    /\ ds.ds.kind \in {"Year", "YearMonthContext"}
    /\ months' = RenderList(ds.ds)
    /\ pc' = "listed"
    /\ UNCHANGED <<resolveVars, rangeVars, foldVars, gradeVars, ctx, out>>

RangeNext == QueryRange \/ BuildRenderList
RangeSpec == RangeInit /\ [][RangeNext]_vars

\* months counted from year 0: the index of (y, m) and the first day of an index
MonthIndex(y, mo) == 12 * y + (mo - 1)
FirstDayOfIndex(n) == [year |-> n \div 12, month |-> (n % 12) + 1, day |-> 1]

\* C2: for YearMonthContext(y, m, c), start() is the first day of the month
\* c months before (y, m), and end() is the first day of the month after
\* (y, m), whatever c is; c = 3 from March gives December of y - 1 and c = 12
\* the same month of y - 1.
C2_ContextRange ==
    (pc \in {"ranged", "listed"} /\ ds.ds.kind = "YearMonthContext") =>
        LET d == ds.ds IN
        /\ since = FirstDayOfIndex(MonthIndex(d.year, d.month) - d.context)
        /\ until = FirstDayOfIndex(MonthIndex(d.year, d.month) + 1)
        /\ (d.month = 3 /\ d.context = 3) => since = [year |-> d.year - 1, month |-> 12, day |-> 1]
        /\ d.context = 12 => since = [year |-> d.year - 1, month |-> d.month, day |-> 1]

\* C2 witness: the range of a context that wraps into an earlier year, the
\* context being the month's own number plus a full year
C2_Witness ==
    /\ pc = "ranged"
    /\ ds.ds.kind = "YearMonthContext"
    /\ ds.ds.context = 12 + ds.ds.month
    /\ since.year = ds.ds.year - 2 /\ since.month = 12

\* C3: the render list of YearMonthContext(y, m, c) has c + 1 months, each the
\* calendar month after the one before it, oldest first, the last one (y, m).
C3_ContextRenderList ==
    (pc = "listed" /\ ds.ds.kind = "YearMonthContext") =>
        LET d == ds.ds IN
        /\ Len(months) = d.context + 1
        /\ months[Len(months)] = YearMonth(d.year, d.month)
        /\ \A n \in 1..Len(months) :
              /\ months[n].kind = "YearMonth" /\ months[n].month \in 1..12
              /\ n > 1 => MonthIndex(months[n].year, months[n].month)
                            = MonthIndex(months[n - 1].year, months[n - 1].month) + 1

\* C3 witness: a render list that crosses a year's end
C3_Witness ==
    /\ pc = "listed"
    /\ ds.ds.kind = "YearMonthContext"
    /\ Len(months) > 12
    /\ months[1].year < ds.ds.year
    /\ \E n \in 1..(Len(months) - 1) :
          months[n].month = 12 /\ months[n + 1].month = 1

(***************************************************************************)
(* GradeSpec: Context::activity_for_day on every event map over GradeDates *)
(* with counts 1..MaxCount, every max 0..MaxCount and every date, the way  *)
(* the tests build a Context from a count and a max of their choice.       *)
(***************************************************************************)
MaxCount == 6

GradeDates == {from_ymd(MinYear, 6, 6), from_ymd(MinYear, 6, 7)}
\* a date of the map has at least one event
GradeMaps == UNION {[S -> 1..MaxCount] : S \in SUBSET GradeDates}

GradeInit ==
    /\ pc = "grading"
    /\ ctx \in {Context(ev, mx, from_ymd(MinYear, 6, 6)) :
                    ev \in GradeMaps, mx \in 0..MaxCount}
    /\ date \in GradeDates
    /\ grade = ""
    /\ IdleResolve /\ IdleRange /\ IdleFold
    /\ months = <<>> /\ out = <<>>

\* ctx.activity_for_day(&date)
GradeDay ==
    /\ pc = "grading"
    /\ grade' = activity_for_day(ctx, date)
    /\ pc' = "graded"
    /\ UNCHANGED <<resolveVars, rangeVars, foldVars, ctx, months, date, out>>

GradeNext == GradeDay
GradeSpec == GradeInit /\ [][GradeNext]_vars

GradeTable ==
    { <<2, 1, "Two">>, <<3, 2, "Three">>, <<3, 1, "Two">>, <<4, 3, "Three">>,
      <<4, 2, "Two">>, <<4, 1, "One">>, <<5, 4, "Four">>, <<5, 3, "Three">>,
      <<5, 2, "Two">>, <<5, 1, "One">> }

\* the quartile of count within max: the least q in 1..4 with 4*count <= q*max
Quartile(count, mx) ==
    CHOOSE q \in 1..4 : /\ 4 * count <= q * mx
                        /\ \A r \in 1..(q - 1) : 4 * count > r * mx

\* C5: for a date with count events and max >= count >= 1 the grade is the
\* quartile of count within max (One if 4*count <= max, Two if <= 2*max,
\* Three if <= 3*max, Four otherwise); count = max grades Four, and the
\* tabulated cases hold.
C5_QuartileGrade ==
    (pc = "graded" /\ date \in DOMAIN ctx.events
        /\ ctx.events[date] >= 1 /\ ctx.events[date] <= ctx.max) =>
        LET count == ctx.events[date] IN
        /\ grade = <<"One", "Two", "Three", "Four">>[Quartile(count, ctx.max)]
        /\ count = ctx.max => grade = "Four"
        /\ \A t \in GradeTable : (ctx.max = t[1] /\ count = t[2]) => grade = t[3]

\* C5 witness: a day on a bucket boundary (x = 2 exactly) has been graded Two
C5_Witness ==
    /\ pc = "graded"
    /\ date \in DOMAIN ctx.events
    /\ ctx.max = 4 /\ ctx.events[date] = 2
    /\ grade = "Two"

(***************************************************************************)
(* RenderSpec: the YearMonth arm of to_term_string on every month of       *)
(* NumRenderYears years, with today before, within and after those years,  *)
(* and with and without recorded events.                                   *)
(***************************************************************************)
NumRenderYears == 28

RenderYears == MinYear..(MinYear + NumRenderYears - 1)
RenderTodays(y, mo) ==
    {from_ymd(MinYear - 1, 1, 1), from_ymd(y, mo, 15), from_ymd(MinYear + NumRenderYears, 1, 1)}
\* no event at all, or one event on the 1st and four on the 15th
RenderContexts(y, mo) ==
    {Context(EmptyMap, 0, t) : t \in RenderTodays(y, mo)}
        \cup {Context([d \in {from_ymd(y, mo, 1), from_ymd(y, mo, 15)} |->
                            IF d.day = 1 THEN 1 ELSE 4], 4, t) : t \in RenderTodays(y, mo)}

RenderInit ==
    /\ pc = "render"
    /\ ds \in {Ok(YearMonth(y, mo)) : y \in RenderYears, mo \in 1..12}
    /\ ctx \in RenderContexts(ds.ds.year, ds.ds.month)
    /\ args = <<>> /\ context = None /\ clock = NoDate
    /\ from_args_today = NoDate
    /\ IdleRange /\ IdleFold /\ IdleGrade
    /\ months = <<>> /\ out = <<>>

\* ds.to_term_string(&ctx)
Render ==
    /\ pc = "render"
    /\ IF to_term_string_panics(ds.ds)
       THEN /\ pc' = "panicked"
            /\ UNCHANGED out
       ELSE /\ out' = to_term_string(ds.ds, ctx)
            /\ pc' = "done"
    /\ UNCHANGED <<resolveVars, rangeVars, foldVars, gradeVars, ctx, months>>

RenderNext == Render
RenderSpec == RenderInit /\ [][RenderNext]_vars

\* the weekday of the 1st, the number of days and the week rows of the month
\* rendered
FirstWeekday == num_days_from_sunday(from_ymd(ds.ds.year, ds.ds.month, 1))
DaysOfMonth == days_in_month(ds.ds.year, ds.ds.month)
WeekRows == (FirstWeekday + DaysOfMonth + 6) \div 7
IsSaturday(n) == num_days_from_sunday(from_ymd(ds.ds.year, ds.ds.month, n)) = Sat
\* where the day number n stands in the text
PosOfDay(n) == CHOOSE p \in 1..Len(out) : out[p] = DayNum(n)

\* C7 as stated: the block of a month always has MONTH_LINES + 1 = 8 lines.
C7_AlwaysEightLines ==
    pc = "done" => Len(Lines(out)) = MONTH_LINES + 1

\* C7 as amended: the block of a month has the two header lines and one line
\* per week row the month needs, 4 to 6 of them, so 6 to MONTH_LINES + 1 = 8
\* lines, and 8 only when the month spans six weeks.
C7_LinesFollowWeekRows ==
    pc = "done" =>
        /\ Len(Lines(out)) = 2 + WeekRows
        /\ WeekRows \in 4..6
        /\ Len(Lines(out)) \in 6..(MONTH_LINES + 1)
        /\ Len(Lines(out)) = MONTH_LINES + 1 <=> FirstWeekday + DaysOfMonth > 35

\* C7 witness: a month of four week rows (a February of 28 days that begins
\* on a Sunday) has been rendered in 6 lines
C7_Witness ==
    /\ pc = "done"
    /\ FirstWeekday = 0 /\ DaysOfMonth = 28
    /\ Len(Lines(out)) = 6

\* C8: a month whose last day is a Saturday ends directly after that day's
\* cell, with no newline and no padding; no month block ends with a newline;
\* a newline follows the cell of every Saturday that is not the last day.
C8_SaturdayEnd ==
    pc = "done" =>
        /\ IsSaturday(DaysOfMonth) =>
              /\ out[Len(out)] = Reset
              /\ out[Len(out) - 1] = DayNum(DaysOfMonth)
        /\ out[Len(out)] # NL
        /\ \A n \in 1..(DaysOfMonth - 1) :
              IsSaturday(n) => /\ out[PosOfDay(n) + 1] = Reset
                               /\ out[PosOfDay(n) + 2] = NL

\* C8 witness: a month that ends on a Saturday has been rendered
C8_Witness ==
    /\ pc = "done"
    /\ IsSaturday(DaysOfMonth)
    /\ out[Len(out) - 1] = DayNum(DaysOfMonth)

\* the date of day n of the month rendered, and the styles of the grades
DateOfDay(n) == [year |-> ds.ds.year, month |-> ds.ds.month, day |-> n]
GradeStyles == {Style(g) : g \in {"None", "One", "Two", "Three", "Four"}}

\* C13: the cell of a day begins with the style of the day's grade exactly
\* when the day is not after today; the cell of a day after today has no
\* style, events or not; the marker before the day number is the bold '#'
\* exactly when the day is today, a space otherwise, so that today's cell has
\* both the style and the mark; the reset follows every day number.
C13_CellStyleAndMark ==
    pc = "done" =>
        \A n \in 1..DaysOfMonth :
            LET p      == PosOfDay(n)
                future == DateLt(ctx.today, DateOfDay(n))
            IN  /\ out[p + 1] = Reset
                /\ out[p - 1] \in {BoldHash, SP}
                /\ out[p - 1] = BoldHash <=> DateOfDay(n) = ctx.today
                /\ out[p - 2] \in GradeStyles <=> ~future
                /\ ~future =>
                      out[p - 2] = Style(IF DateOfDay(n) \notin DOMAIN ctx.events
                                         THEN "None"
                                         ELSE IF ctx.events[DateOfDay(n)] = ctx.max
                                              THEN "Four" ELSE "One")
                /\ DateOfDay(n) = ctx.today =>
                      out[p - 2] \in GradeStyles /\ out[p - 1] = BoldHash

\* C13 witness: a month has been rendered with today the 15th and events on
\* the 1st and the 15th: the 1st is styled and unmarked, the 15th styled and
\* marked, the 16th neither
C13_Witness ==
    /\ pc = "done"
    /\ ctx.today = DateOfDay(15) /\ DateOfDay(15) \in DOMAIN ctx.events
    /\ out[PosOfDay(1) - 2] = Style("One") /\ out[PosOfDay(1) - 1] = SP
    /\ out[PosOfDay(15) - 2] = Style("Four") /\ out[PosOfDay(15) - 1] = BoldHash
    /\ out[PosOfDay(16) - 2] \notin GradeStyles /\ out[PosOfDay(16) - 1] = SP

\* the display columns of a piece of text
RECURSIVE ColumnsOf(_)
ColumnsOf(line) ==
    IF line = <<>> THEN 0 ELSE Width(Head(line)) + ColumnsOf(Tail(line))

\* the weekday of day n of the month rendered (0 = Sunday), the line of the
\* block its week row is, and the columns that precede its number in that line
WeekdayOfDay(n) == (FirstWeekday + n - 1) % 7
RowOfDay(n) == 3 + (FirstWeekday + n - 1) \div 7
ColumnOfDay(n) ==
    LET line == Lines(out)[RowOfDay(n)]
        q    == CHOOSE i \in 1..Len(line) : line[i] = DayNum(n)
    IN  ColumnsOf(SubSeq(line, 1, q - 1))
\* week_written when the loop over the days has ended
FinalWeekWritten == MonthLoop(ds.ds.year, ds.ds.month, ctx).week_written

\* C14: every week row is 21 columns wide, escapes not counted; the first
\* row begins with one blank cell of 3 columns per weekday before the 1st;
\* the number of each day stands in the cell of its weekday, right after the
\* mark; a last row that does not end on a Saturday ends with the blanks that
\* fill it to 21 columns; week_written is a multiple of 3 in 0..18 where
\* 21 - week_written is computed.
C14_RowsAreTwentyOneColumns ==
    pc = "done" =>
        LET L    == Lines(out)
            last == L[Len(L)]
            left == 21 - 3 * (WeekdayOfDay(DaysOfMonth) + 1)
        IN  /\ \A r \in 3..Len(L) : ColumnsOf(L[r]) = 21
            /\ SubSeq(L[3], 1, 3 * FirstWeekday) = Spaces(3 * FirstWeekday)
            /\ \A n \in 1..DaysOfMonth :
                  /\ RowOfDay(n) <= Len(L)
                  /\ DayNum(n) \in {L[RowOfDay(n)][i] : i \in 1..Len(L[RowOfDay(n)])}
                  /\ ColumnOfDay(n) = 3 * WeekdayOfDay(n) + 1
            /\ ~IsSaturday(DaysOfMonth) =>
                  /\ left \in 3..18
                  /\ SubSeq(last, Len(last) - left + 1, Len(last)) = Spaces(left)
                  /\ last[Len(last) - left] = Reset
            /\ FinalWeekWritten \in {3 * k : k \in 0..6}
            /\ FinalWeekWritten = 3 * ((FirstWeekday + DaysOfMonth) % 7)
            /\ 21 - FinalWeekWritten >= 3

\* C14 witness: a month that begins on a Friday and ends on a Sunday has been
\* rendered: 15 blanks before the 1st, and 18 blanks after the last day, with
\* week_written = 3
C14_Witness ==
    /\ pc = "done"
    /\ FirstWeekday = 5 /\ WeekdayOfDay(DaysOfMonth) = 0
    /\ FinalWeekWritten = 3
    /\ ColumnOfDay(1) = 16
    /\ ColumnsOf(Lines(out)[Len(Lines(out))]) = 21
    /\ Lines(out)[Len(Lines(out))][Len(Lines(out)[Len(Lines(out))])] = SP

(***************************************************************************)
(* MergeSpec: chunk_months (and merge_months on each of its groups) on     *)
(* every list of at most MaxMonths months drawn from three months of 6, 7  *)
(* and 8 lines, on the twelve months of a year, and on every single month  *)
(* of RenderYears (every length of a month on every weekday of the 1st).   *)
(***************************************************************************)
MaxMonths == 4

MergeMonths ==
    {YearMonth(MinYear + 6, 2), YearMonth(MinYear, 10), YearMonth(MinYear, 5)}
MergeContexts ==
    {Context(EmptyMap, 0, from_ymd(MinYear, 5, 30)),
     Context([d \in {from_ymd(MinYear, 5, 1)} |-> 2], 2, from_ymd(MinYear, 10, 31))}

MergeInit ==
    /\ pc = "months"
    /\ months \in SeqsUpTo(MergeMonths, MaxMonths)
                    \cup {RenderList(Year(y)) : y \in Years}
                    \cup {<<YearMonth(y, mo)>> : y \in RenderYears, mo \in 1..12}
    /\ ctx \in MergeContexts
    /\ IdleResolve /\ IdleRange /\ IdleFold /\ IdleGrade
    /\ out = <<>>

\* chunk_months(ctx, &months)
Compose ==
    /\ pc = "months"
    /\ out' = chunk_months(ctx, months)
    /\ pc' = "merged"
    /\ UNCHANGED <<resolveVars, rangeVars, foldVars, gradeVars, ctx, months>>

MergeNext == Compose
MergeSpec == MergeInit /\ [][MergeNext]_vars

\* the number of groups of a list, the months of group g, the lines of the
\* block of month k, and line n of that block or the blank that stands for it
NumGroups == (Len(months) + 2) \div 3
GroupOf(g) == {k \in 1..Len(months) : (k + 2) \div 3 = g}
BlockOf(k) == Lines(MonthBlock(months[k].year, months[k].month, ctx))
PartOf(k, n) == IF n <= Len(BlockOf(k)) THEN BlockOf(k)[n] ELSE Spaces(21)
\* merged line n of group g: the parts of its months, a gutter between them
ExpectedLine(g, n) ==
    LET k1 == 3 * g - 2
    IN  PartOf(k1, n)
          \o (IF k1 + 1 \in GroupOf(g) THEN Spaces(3) \o PartOf(k1 + 1, n) ELSE <<>>)
          \o (IF k1 + 2 \in GroupOf(g) THEN Spaces(3) \o PartOf(k1 + 2, n) ELSE <<>>)

\* C9: the list is split in order into groups of at most 3; each group gives
\* exactly MONTH_LINES + 1 = 8 merged lines; merged line n is line n of each
\* month's block in list order, 21 spaces standing for a block that has
\* fewer than n lines, the parts joined by a gutter of 3 spaces.
C9_MergedLines ==
    pc = "merged" =>
        LET L == Lines(out) IN
        /\ Len(L) = (MONTH_LINES + 1) * NumGroups
        /\ \A g \in 1..NumGroups : \A n \in 1..(MONTH_LINES + 1) :
              L[(MONTH_LINES + 1) * (g - 1) + n] = ExpectedLine(g, n)

\* C9 witness: a group of three months of 6, 7 and 8 lines has been merged,
\* and its last line holds two blanks and the sixth week of the third month
C9_Witness ==
    /\ pc = "merged"
    /\ Len(months) = 3
    /\ Len(BlockOf(1)) = 6 /\ Len(BlockOf(2)) = 7 /\ Len(BlockOf(3)) = 8
    /\ Lines(out)[8] = Spaces(21) \o Spaces(3) \o Spaces(21) \o Spaces(3) \o BlockOf(3)[8]

\* the lines of the output that begin a group (they begin with a month title),
\* and the g-th of them
TitleLines ==
    {n \in 1..Len(Lines(out)) : Len(Lines(out)[n]) > 0 /\ Lines(out)[n][1].k = "title"}
TitleLine(g) ==
    CHOOSE n \in TitleLines : Cardinality({t \in TitleLines : t <= n}) = g
IsBlank(line) == \A n \in 1..Len(line) : line[n] = SP

\* C10 as stated: between the last merged line of a group and the first
\* merged line of the next group there is exactly one line, and it carries
\* no month content.
C10_BlankLineBetweenGroups ==
    (pc = "merged" /\ NumGroups >= 2) =>
        \A g \in 1..(NumGroups - 1) :
            /\ TitleLine(g + 1) = TitleLine(g) + MONTH_LINES + 2
            /\ IsBlank(Lines(out)[TitleLine(g) + MONTH_LINES + 1])

\* C10 as amended: consecutive groups are separated by a single newline and
\* nothing else: the first merged line of a group directly follows the 8th
\* merged line of the group before it, with no line in between; that 8th line
\* is blank exactly when no month of its group has six week rows.
C10_NewlineBetweenGroups ==
    (pc = "merged" /\ NumGroups >= 2) =>
        /\ Cardinality(NewlinesOf(out)) = (MONTH_LINES + 1) * NumGroups - 1
        /\ \A g \in 1..(NumGroups - 1) :
              /\ TitleLine(g + 1) = TitleLine(g) + MONTH_LINES + 1
              /\ IsBlank(Lines(out)[TitleLine(g + 1) - 1])
                    <=> \A k \in GroupOf(g) : Len(BlockOf(k)) <= MONTH_LINES

\* C10 witness: the twelve months of a year have been composed in 4 groups,
\* and the title line of the third group directly follows a line that holds
\* the sixth week of a month of the second group
C10_Witness ==
    /\ pc = "merged"
    /\ Len(months) = 12 /\ NumGroups = 4
    /\ Len(Lines(out)) = 4 * (MONTH_LINES + 1)
    /\ ~IsBlank(Lines(out)[TitleLine(3) - 1])
    /\ TitleLine(3) = 2 * (MONTH_LINES + 1) + 1

\* of month k of the list: the weekday of its 1st, its days, its week rows
FirstWeekdayOf(k) == num_days_from_sunday(from_ymd(months[k].year, months[k].month, 1))
DaysOf(k) == days_in_month(months[k].year, months[k].month)
WeekRowsOf(k) == (FirstWeekdayOf(k) + DaysOf(k) + 6) \div 7
\* the day numbers in the text, and the days of the months of the list
DayTokens == {i \in 1..Len(out) : out[i].k = "day"}
DaysOfList == {<<k, n>> \in (1..Len(months)) \X (1..31) : n <= DaysOf(k)}

\* C15: a month has 28 to 31 days and its block the 2 header lines and 4 to
\* 6 week rows, 6 to 8 lines; the MONTH_LINES + 1 = 8 lines merge_months
\* takes from each block are all its lines: no line of a block is left
\* unconsumed, and every day of every month is in the composed text.
C15_NoWeekRowDropped ==
    pc = "merged" =>
        /\ \A k \in 1..Len(months) :
              /\ DaysOf(k) \in 28..31
              /\ WeekRowsOf(k) \in 4..6
              /\ Len(BlockOf(k)) = 2 + WeekRowsOf(k)
              /\ Len(BlockOf(k)) >= 6 /\ Len(BlockOf(k)) <= MONTH_LINES + 1
        /\ \A g \in 1..NumGroups :
              LET rest == merge_months_rest(ctx, Chunks(months)[g])
              IN  \A j \in 1..Len(rest) : rest[j] = <<>>
        /\ Cardinality(DayTokens) = Cardinality(DaysOfList)

\* C15 witness: a month of 31 days that begins on a Saturday, six week rows,
\* has been composed: its block has 8 lines and the 8th line of the text
\* holds its last two days
C15_Witness ==
    /\ pc = "merged"
    /\ Len(months) = 1
    /\ DaysOf(1) = 31 /\ FirstWeekdayOf(1) = Sat /\ WeekRowsOf(1) = 6
    /\ Len(BlockOf(1)) = MONTH_LINES + 1
    /\ \E i, j \in 1..Len(Lines(out)[MONTH_LINES + 1]) :
          /\ Lines(out)[MONTH_LINES + 1][i] = DayNum(30)
          /\ Lines(out)[MONTH_LINES + 1][j] = DayNum(31)

(***************************************************************************)
(* TotalSpec: start(), end() and to_term_string on the DateSpecs from_args  *)
(* returns for bare numbers at and beyond the ends of chrono's years and of *)
(* i32, every month and small and huge contexts.                            *)
(***************************************************************************)
\* a context that reaches beyond every year chrono has (u32 goes further)
HugeContext == I32Max

EdgeYears ==
    {I32Min, MIN_YEAR - 1, MIN_YEAR, MinYear, MAX_YEAR, MAX_YEAR + 1, I32Max}
EdgeContexts == {0, 1, 13, HugeContext}
EdgeDateSpecs ==
    {Year(y) : y \in EdgeYears}
        \cup {YearMonth(y, mo) : y \in EdgeYears, mo \in 1..12}
        \cup {YearMonthContext(y, mo, c) :
                    y \in EdgeYears, mo \in 1..12, c \in EdgeContexts}

\* run() with the DateSpec resolved, before the range is computed, and with
\* the context built, before the text is rendered
TotalInit ==
    /\ pc \in {"parsed", "render"}
    /\ ds \in {Ok(d) : d \in EdgeDateSpecs}
    /\ ctx = Context(EmptyMap, 0, from_ymd(MinYear, 5, 30))
    /\ args = <<>> /\ context = None /\ clock = NoDate
    /\ from_args_today = NoDate
    /\ IdleRange /\ IdleFold /\ IdleGrade
    /\ months = <<>> /\ out = <<>>

TotalNext == QueryRange \/ Render
TotalSpec == TotalInit /\ [][TotalNext]_vars

\* C11: for every DateSpec from_args can return and every context, start(),
\* end() and to_term_string complete with a result: none of them panics on an
\* overflow of the year arithmetic or on a date out of range.
C11_NeverPanics ==
    pc # "panicked"

(***************************************************************************)
(* Spec: one invocation of Args::run, from the arguments to the text       *)
(* printed, with setup_graph_map's scan one event at a time and a clock    *)
(* that may advance by a day at most MaxTicks times while the command runs.*)
(***************************************************************************)
MaxEvents == 3
MaxTicks == 1

RunTokens == {Month(3), Num(MinYear)}
RunStart == from_ymd(MinYear, 3, 31)

\* the day after d
NextDay(d) ==
    IF d.day < days_in_month(d.year, d.month) THEN from_ymd(d.year, d.month, d.day + 1)
    ELSE IF d.month = 12 THEN from_ymd(d.year + 1, 1, 1)
    ELSE from_ymd(d.year, d.month + 1, 1)

\* HashMap::insert
Insert(mp, k, v) == [d \in DOMAIN mp \cup {k} |-> IF d = k THEN v ELSE mp[d]]

Init ==
    /\ pc = "start"
    /\ args \in SeqsUpTo(RunTokens, MaxArgs)
    /\ context \in ArgContexts
    /\ clock = RunStart
    /\ from_args_today = NoDate
    /\ ds = Err("")
    /\ IdleRange /\ IdleFold /\ IdleGrade
    /\ ctx = NoContext /\ months = <<>> /\ out = <<>>

\* the clock passes midnight
Tick ==
    /\ pc \notin {"failed", "panicked", "done"}
    /\ DaysFromCivil(clock) < DaysFromCivil(RunStart) + MaxTicks
    /\ clock' = NextDay(clock)
    /\ UNCHANGED <<pc, args, context, from_args_today, ds, rangeVars, foldVars,
                   gradeVars, ctx, months, out>>

\* Activity::query(rl.db(), &filter): the store answers with any events of
\* the range, here up to MaxEvents events on its first two days, in any order
Query ==
    /\ pc = "ranged"
    /\ events' \in SeqsUpTo({since, NextDay(since)}, MaxEvents)
    /\ pc' = "queried"
    /\ UNCHANGED <<resolveVars, rangeVars, idx, cur, ctr, max, map, gradeVars,
                   ctx, months, out>>

\* setup_graph_map: its locals before the scan
FoldBegin ==
    /\ pc = "queried"
    /\ idx' = 0 /\ cur' = NoCur /\ ctr' = 0 /\ max' = 0 /\ map' = EmptyMap
    /\ pc' = "fold"
    /\ UNCHANGED <<resolveVars, rangeVars, events, gradeVars, ctx, months, out>>

\* setup_graph_map: one iteration of `for event in events`
FoldStep ==
    /\ pc = "fold"
    /\ idx < Len(events)
    /\ LET d == events[idx + 1] IN
        IF cur.some
        THEN IF d = cur.val
             THEN /\ ctr' = ctr + 1
                  /\ UNCHANGED <<cur, max, map>>
             ELSE /\ max' = IF ctr > max THEN ctr ELSE max
                  /\ map' = Insert(map, cur.val, ctr)
                  /\ cur' = SomeCur(d)
                  /\ ctr' = 1
        ELSE /\ cur' = SomeCur(d)
             /\ ctr' = 1
             /\ UNCHANGED <<max, map>>
    /\ idx' = idx + 1
    /\ UNCHANGED <<pc, resolveVars, rangeVars, events, gradeVars, ctx, months, out>>

\* a mutant of FoldFinish: the last run is not committed
FoldFinishNoCommit ==
    /\ pc = "fold"
    /\ idx = Len(events)
    /\ pc' = "context"
    /\ UNCHANGED <<resolveVars, rangeVars, events, idx, cur, ctr, max, map,
                   gradeVars, ctx, months, out>>

\* setup_graph_map: after the scan, `if ctr > 0 { if let Some(cur) = cur.take() ..`
FoldFinish ==
    /\ pc = "fold"
    /\ idx = Len(events)
    /\ IF ctr > 0 /\ cur.some
       THEN /\ max' = IF ctr > max THEN ctr ELSE max
            /\ map' = Insert(map, cur.val, ctr)
            /\ cur' = NoCur
       ELSE UNCHANGED <<cur, max, map>>
    /\ pc' = "context"
    /\ UNCHANGED <<resolveVars, rangeVars, events, idx, ctr, gradeVars, ctx,
                   months, out>>

\* Context { events, max, today: Utc::today().naive_utc() }
BuildContext ==
    /\ pc = "context"
    /\ ctx' = Context(map, max, clock)
    /\ pc' = "render"
    /\ UNCHANGED <<resolveVars, rangeVars, foldVars, gradeVars, months, out>>

Next ==
    \/ Tick
    \/ FromArgs
    \/ QueryRange
    \/ Query
    \/ FoldBegin
    \/ FoldStep
    \/ FoldFinish
    \/ BuildContext
    \/ Render

Spec == Init /\ [][Next]_vars

\* events of the same calendar date are contiguous in ev
Contiguous(ev) ==
    \A a \in 1..Len(ev) : \A b \in a..Len(ev) : \A c \in b..Len(ev) :
        ev[a] = ev[c] => ev[b] = ev[a]
\* the dates of the first n events, and how many of those events a date has
DatesOf(ev, n) == {ev[k] : k \in 1..n}
CountOf(ev, d, n) == Cardinality({k \in 1..n : ev[k] = d})
\* the largest count of a map, 0 for the empty map
LargestCount(mp) ==
    IF DOMAIN mp = {} THEN 0
    ELSE CHOOSE v \in {mp[d] : d \in DOMAIN mp} : \A d \in DOMAIN mp : mp[d] <= v

\* C6: when the events of a date are contiguous, setup_graph_map returns a
\* map whose keys are the dates that have an event, each with its number of
\* events, and max is the largest count (0 without events); during the scan
\* the map holds the runs that ended at a date change and the running count
\* is that of the run still open, which is committed after the scan.
C6_HistogramOfRuns ==
    Contiguous(events) =>
        /\ pc = "fold" =>
              LET open == IF cur.some THEN {cur.val} ELSE {} IN
              /\ DOMAIN map = DatesOf(events, idx) \ open
              /\ \A d \in DOMAIN map : map[d] = CountOf(events, d, Len(events))
              /\ max = LargestCount(map)
              /\ cur.some <=> idx > 0
              /\ cur.some => /\ cur.val = events[idx]
                             /\ ctr = CountOf(events, cur.val, idx)
        /\ pc \in {"context", "render", "done"} =>
              /\ DOMAIN map = DatesOf(events, Len(events))
              /\ \A d \in DOMAIN map :
                    map[d] = CountOf(events, d, Len(events)) /\ map[d] >= 1
              /\ max = LargestCount(map)
              /\ events = <<>> => max = 0

\* C6 witness: three events on two dates have been folded into a map of two
\* keys whose largest count is 2
C6_Witness ==
    /\ pc = "context"
    /\ Len(events) = 3 /\ Contiguous(events)
    /\ Cardinality(DOMAIN map) = 2
    /\ max = 2

\* C12: within one invocation of run today is obtained once: the date
\* from_args defaulted the year and the month from and the date rendering
\* marks today's cell and tells future days by are the same value, also when
\* the clock passes midnight while the command runs.
C12_TodayReadOnce ==
    pc \in {"render", "done"} => ctx.today = from_args_today

====
